---- MODULE Spec2Model ----
(***************************************************************************)
(* Server-side render entry point (source/server/render.js): one render    *)
(* call, from the State Initializer call to the settled promise.           *)
(*                                                                         *)
(* URLs and paths are sequences of tokens: an optional origin token, then  *)
(* "/" and segment tokens, then an optional search token.  Optional values *)
(* (JavaScript `undefined`) are sequences of length 0 or 1.                *)
(***************************************************************************)
EXTENDS Integers, Sequences, FiniteSets, TLC

\* ------------------------------------------------------------------ bounds
MaxClock == 1
MaxRedirectCalls == 2

\* ------------------------------------------------------- program constants
StatusOk == 200

None == <<>>
Some(x) == <<x>>

\* ------------------------------------------------------------- input sets
Origins == {"https://sso.example.com"}
Searches == {"?q=1"}

ReservedPath == <<"/", "react-website-base">>

Urls ==
  { <<"/">>,
    <<"/", "foo", "?q=1">>,
    <<"/", "react-website-base">>,
    <<"/", "react-website-base", "/">>,
    <<"/", "react-website-base", "/", "/">>,
    <<"/", "react-website-base", "/", "x">> }

Basenames == { <<>>, <<"/", "app">> }

RedirectTargets ==
  { <<"/", "login", "?q=1">>,
    <<"https://sso.example.com", "/", "login">> }

RenderContentValues == {"true", "false", "unset"}

AssetDescriptors ==
  { [ entries |-> None, javascript |-> {} ],
    [ entries |-> None, javascript |-> {"main"} ],
    [ entries |-> Some(<<>>), javascript |-> {"main"} ],
    [ entries |-> Some(<<"app">>), javascript |-> {} ],
    [ entries |-> Some(<<"app", "main">>), javascript |-> {"main"} ] }

\* `assets` is a literal or a function of (path, parameters).
AssetsOptions == [ fn : BOOLEAN, value : AssetDescriptors ]

\* `html` : head, bodyStart, bodyEnd, all literals or all functions.
HtmlOptions == [ fn : BOOLEAN ]

InitializeErrors == {"NetworkError"}
RenderErrors == {"RenderError"}
HandlerErrors == {"HandlerError"}
ConfigurationError == "assets.entries[] configuration parameter is required"

CookiesToSet == { <<>>, <<"session=1">> }

TimeFields == {"preload", "initialize"}
\* The timing records the Page Renderer returns (`undefined` spreads as {}).
TimeRecords == UNION { [ d -> {7} ] : d \in SUBSET TimeFields }

\* The pages the Page Renderer resolves with when it does not redirect.
Pages ==
  { [ route |-> "/foo", status |-> 200, meta |-> <<"title">> ],
    [ route |-> "/not-found", status |-> 404, meta |-> <<>> ] }

RenderOutputs ==
  { [ route |-> p.route, status |-> p.status, content |-> "page",
      meta |-> p.meta, containerProps |-> "props", time |-> t ] :
    p \in Pages, t \in TimeRecords }

\* ---------------------------------------------------------------- state
VARIABLES
  settings,         \* normalized settings: onError, basename, authentication
  request,          \* the options the caller passed
  pc,               \* position of the async function
  now,              \* wall clock
  timerStart,       \* timer() start
  initializeTime,   \* Option: value of initializeTimer()
  parameters,       \* Option: what reduxInitialize resolved with
  path,             \* Option: location.pathname
  renderContent,    \* the (reassignable) renderContent argument
  assets,           \* Option: the resolved (and possibly defaulted) assets
  outerHtml,        \* Option: [before_content, after_content]
  error,            \* Option: the error caught by the catch block
  onErrorCall,      \* Option: the arguments onError was invoked with
  redirect,         \* Option: the catch block's `redirect` variable
  redirectCalls,    \* the redirect() calls of the handler, in order: [to, late]
  handler,          \* "idle", "running", "returned", "threw"
  handlerThrown,    \* Option: what the handler threw
  initializeError,  \* Option: what the awaited reduxInitialize rejected with
  rendered,         \* Option: what the awaited render resolved with
  calls,            \* the collaborators invoked so far, in order
  result            \* the promise: pending, resolved value or rejection

vars == << settings, request, pc, now, timerStart, initializeTime, parameters,
           path, renderContent, assets, outerHtml, error, onErrorCall,
           redirect, redirectCalls, handler, handlerThrown, initializeError,
           rendered, calls, result >>

\* ------------------------------------------------------ location helpers
parseLocation(url) ==
  LET hasOrigin == Len(url) > 0 /\ url[1] \in Origins
      rest == IF hasOrigin THEN Tail(url) ELSE url
      hasSearch == Len(rest) > 0 /\ rest[Len(rest)] \in Searches
  IN  [ origin |-> IF hasOrigin THEN <<url[1]>> ELSE <<>>,
        pathname |-> IF hasSearch THEN SubSeq(rest, 1, Len(rest) - 1) ELSE rest,
        search |-> IF hasSearch THEN <<rest[Len(rest)]>> ELSE <<>> ]

\* Serializes a location; the basename is prepended to relative URLs only.
getLocationUrl(location, basename) ==
  location.origin
    \o (IF location.origin = <<>> THEN basename ELSE <<>>)
    \o location.pathname \o location.search

normalizeRedirect(to, basename) == getLocationUrl(to, basename)

\* Mutant: the trailing slash is not stripped.
StripTrailingSlash_Kept(p) == p

\* path.replace(/\/$/, '')
StripTrailingSlash(p) ==
  IF Len(p) > 0 /\ p[Len(p)] = "/" THEN SubSeq(p, 1, Len(p) - 1) ELSE p

IsStaticBasePage(p) == StripTrailingSlash(p) = ReservedPath

\* renderContent === false
IsFalse(rc) == rc = "false"

\* ------------------------------------------------------------------ Init
Init ==
  /\ settings \in [ onError : BOOLEAN, basename : Basenames,
                    protectedCookie : {None, Some("auth")},
                    container : {"Container"}, routes : {"routes"} ]
  /\ request \in [ url : Urls, renderContent : RenderContentValues,
                   assets : AssetsOptions, html : HtmlOptions,
                   cookies : {[ auth |-> "token" ]},
                   locales : {<<"en", "ru">>} ]
  /\ request.assets.fn = request.html.fn
  /\ pc = "start"
  /\ now = 0
  /\ timerStart = 0
  /\ initializeTime = None
  /\ parameters = None
  /\ path = None
  /\ renderContent = request.renderContent
  /\ assets = None
  /\ outerHtml = None
  /\ error = None
  /\ onErrorCall = None
  /\ redirect = None
  /\ redirectCalls = <<>>
  /\ handler = "idle"
  /\ handlerThrown = None
  /\ initializeError = None
  /\ rendered = None
  /\ calls = <<>>
  /\ result = [ kind |-> "pending" ]

\* ------------------------------------------------------ promise outcomes
Resolved(v) == [ kind |-> "resolved", value |-> v ]
Rejected(e) == [ kind |-> "rejected", error |-> e ]

\* --------------------------------------------------- outer HTML generator
\* cookies.get(authentication.protectedCookie), when configured
protected_cookie_value ==
  IF settings.protectedCookie # None
  THEN Some(request.cookies[settings.protectedCookie[1]])
  ELSE None

\* A literal `html` modifier is used as is, a function is called with the path.
ResolveModifier(name) ==
  [ value |-> name, calledWith |-> IF request.html.fn THEN path ELSE None ]

\* `assets` is used as is, or called with (path, parameters).
ResolveAssets == request.assets.value

\* Mutant: entries default to ["main"] without looking for the main asset.
DefaultEntries_Unchecked(a) ==
  IF a.entries # None
  THEN [ thrown |-> FALSE, assets |-> a ]
  ELSE [ thrown |-> FALSE, assets |-> [ a EXCEPT !.entries = Some(<<"main">>) ] ]

\* Default `assets.entries` to ["main"], or throw.
DefaultEntries(a) ==
  IF a.entries # None
  THEN [ thrown |-> FALSE, assets |-> a ]
  ELSE IF "main" \in a.javascript
       THEN [ thrown |-> FALSE, assets |-> [ a EXCEPT !.entries = Some(<<"main">>) ] ]
       ELSE [ thrown |-> TRUE, assets |-> a ]

generateMetaTagsMarkup(meta) == [ i \in DOMAIN meta |-> <<"meta", meta[i]>> ]

render_before_content(a, meta) ==
  [ piece |-> "before_content",
    assets |-> a,
    locale |-> request.locales[1],
    meta |-> generateMetaTagsMarkup(meta),
    head |-> ResolveModifier("head"),
    bodyStart |-> ResolveModifier("bodyStart") ]

render_after_content(a, rc) ==
  [ piece |-> "after_content",
    javascript |-> <<"javascript", parameters[1].store>>,
    assets |-> a,
    locale |-> request.locales[1],
    bodyEnd |-> ResolveModifier("bodyEnd"),
    protected_cookie_value |-> protected_cookie_value,
    contentNotRendered |-> IsFalse(rc) ]

\* generateOuterHtml(meta), with `rc` the value of renderContent at the call.
generateOuterHtml(meta, rc) ==
  LET d == DefaultEntries(ResolveAssets)
  IN  IF d.thrown
      THEN [ thrown |-> TRUE, assets |-> d.assets, html |-> None,
             calls |-> <<"generateOuterHtml">> ]
      ELSE [ thrown |-> FALSE, assets |-> d.assets,
             html |-> Some([ before_content |-> render_before_content(d.assets, meta),
                             after_content |-> render_after_content(d.assets, rc) ]),
             calls |-> <<"generateOuterHtml", "generateJavascript">> ]

\* Mutant: the element is pushed at the end instead of spliced in.
Splice_Push(streams, index, element) == Append(streams, element)

\* array.splice(index, 0, element)
Splice(streams, index, element) ==
  SubSeq(streams, 1, index) \o <<element>> \o SubSeq(streams, index + 1, Len(streams))

\* ReactDOM.renderToNodeStream(React.createElement(container, containerProps, content))
PageElement(r) ==
  [ piece |-> "pageElement", container |-> settings.container,
    containerProps |-> r.containerProps, content |-> r.content ]

\* The streams array of the normal path, and the stream renders it took.
Streams(html, r, rc) ==
  LET streams == << html.before_content, html.after_content >>
  IN  IF ~IsFalse(rc)
      THEN [ streams |-> Splice(streams, Len(streams) \div 2, PageElement(r)),
             calls |-> <<"renderToNodeStream">> ]
      ELSE [ streams |-> streams, calls |-> <<>> ]

\* Mutant: { initialize: initializeTime, ...time }, the spread comes last.
MergeTime_SpreadLast(time, initTime) ==
  [ f \in DOMAIN time \cup {"initialize"} |->
      IF f \in DOMAIN time THEN time[f] ELSE initTime ]

\* time: { ...time, initialize: initializeTime }
MergeTime(time, initTime) ==
  [ f \in DOMAIN time \cup {"initialize"} |->
      IF f = "initialize" THEN initTime ELSE time[f] ]

StaticBasePageResult(html) ==
  [ route |-> "/react-website-base",
    status |-> StatusOk,
    content |-> << html.before_content, html.after_content >>,
    cookies |-> <<>> ]

\* Mutant: the content result carries an empty cookies list.
ContentResult_NoCookies(html, r, rc) ==
  [ route |-> r.route,
    status |-> r.status,
    content |-> Streams(html, r, rc).streams,
    time |-> MergeTime(r.time, initializeTime[1]),
    cookies |-> <<>> ]

ContentResult(html, r, rc) ==
  [ route |-> r.route,
    status |-> r.status,
    content |-> Streams(html, r, rc).streams,
    time |-> MergeTime(r.time, initializeTime[1]),
    cookies |-> parameters[1].cookies ]

RedirectResult(to) == [ redirect |-> normalizeRedirect(to, settings.basename) ]

\* Mutant: every redirect call overwrites the recorded target.
onErrorRedirect_LastWins(to) == Some(parseLocation(to))

\* onErrorParameters.redirect: only the first redirect takes effect.
onErrorRedirect(to) ==
  IF redirect = None THEN Some(parseLocation(to)) ELSE redirect

\* ---------------------------------------------------------------- actions
\* Lines 25-58: normalize, read the protected cookie, start the timer and
\* call reduxInitialize; the function suspends at the await.
Start ==
  /\ pc = "start"
  /\ timerStart' = now
  /\ calls' = Append(calls, "reduxInitialize")
  /\ pc' = "awaitInitialize"
  /\ UNCHANGED << settings, request, initializeError, rendered, handlerThrown, now, initializeTime, parameters, path,
                  renderContent, assets, outerHtml, error, onErrorCall,
                  redirect, redirectCalls, handler, result >>

\* Time passes before the call and while the State Initializer runs.
Tick ==
  /\ pc \in {"start", "awaitInitialize"}
  /\ now < MaxClock
  /\ now' = now + 1
  /\ UNCHANGED << settings, request, initializeError, rendered, handlerThrown, pc, timerStart, initializeTime, parameters,
                  path, renderContent, assets, outerHtml, error, onErrorCall,
                  redirect, redirectCalls, handler, calls, result >>

\* Mutant: the await sits inside the try block, the rejection is caught.
InitializeRejects_Caught(X) ==
  /\ pc = "awaitInitialize"
  /\ initializeError' = Some(X)
  /\ error' = Some(X)
  /\ path' = Some(parseLocation(request.url).pathname)
  /\ pc' = "catch"
  /\ UNCHANGED << settings, request, rendered, handlerThrown, now, timerStart,
                  initializeTime, parameters, renderContent, assets, outerHtml,
                  onErrorCall, redirect, redirectCalls, handler, calls, result >>

\* The awaited reduxInitialize rejects: outside the try block.
InitializeRejects(X) ==
  /\ pc = "awaitInitialize"
  /\ initializeError' = Some(X)
  /\ result' = Rejected(X)
  /\ pc' = "done"
  /\ UNCHANGED << settings, request, rendered, handlerThrown, now, timerStart, initializeTime, parameters,
                  path, renderContent, assets, outerHtml, error, onErrorCall,
                  redirect, redirectCalls, handler, calls >>

\* The awaited reduxInitialize resolves: lines 48-74.
InitializeResolves(cookiesToSet) ==
  /\ pc = "awaitInitialize"
  /\ parameters' = Some([ cookies |-> cookiesToSet, store |-> "store" ])
  /\ path' = Some(parseLocation(request.url).pathname)
  /\ initializeTime' = Some(now - timerStart)
  /\ pc' = "try"
  /\ UNCHANGED << settings, request, initializeError, rendered, handlerThrown, now, timerStart, renderContent, assets,
                  outerHtml, error, onErrorCall, redirect, redirectCalls,
                  handler, calls, result >>

\* Lines 129-141: the special base page for static sites.
StaticBasePage ==
  /\ pc = "try"
  /\ IsStaticBasePage(path[1])
  /\ renderContent' = "false"
  /\ LET g == generateOuterHtml(<<>>, "false")
     IN  /\ calls' = calls \o g.calls
         /\ assets' = Some(g.assets)
         /\ outerHtml' = g.html
         /\ IF g.thrown
            THEN /\ error' = Some(ConfigurationError)
                 /\ pc' = "catch"
                 /\ UNCHANGED result
            ELSE /\ result' = Resolved(StaticBasePageResult(g.html[1]))
                 /\ pc' = "done"
                 /\ UNCHANGED error
  /\ UNCHANGED << settings, request, initializeError, rendered, handlerThrown, now, timerStart, initializeTime, parameters,
                  path, onErrorCall, redirect, redirectCalls, handler >>

\* Lines 144-155: call the Page Renderer and suspend at the await.
CallRender ==
  /\ pc = "try"
  /\ ~IsStaticBasePage(path[1])
  /\ calls' = Append(calls, "render")
  /\ pc' = "awaitRender"
  /\ UNCHANGED << settings, request, initializeError, rendered, handlerThrown, now, timerStart, initializeTime, parameters,
                  path, renderContent, assets, outerHtml, error, onErrorCall,
                  redirect, redirectCalls, handler, result >>

\* The awaited render rejects inside the try block.
RenderRejects(E) ==
  /\ pc = "awaitRender"
  /\ error' = Some(E)
  /\ pc' = "catch"
  /\ UNCHANGED << settings, request, initializeError, rendered, handlerThrown, now, timerStart, initializeTime, parameters,
                  path, renderContent, assets, outerHtml, onErrorCall, redirect,
                  redirectCalls, handler, calls, result >>

\* Mutant: the redirect branch does not return before the page is assembled.
RenderRedirects_FallThrough(to) ==
  /\ pc = "awaitRender"
  /\ rendered' = Some([ redirect |-> to ])
  /\ LET g == generateOuterHtml(<<>>, renderContent)
     IN  /\ calls' = calls \o g.calls
         /\ assets' = Some(g.assets)
         /\ outerHtml' = g.html
  /\ result' = Resolved(RedirectResult(to))
  /\ pc' = "done"
  /\ UNCHANGED << settings, request, initializeError, handlerThrown, now,
                  timerStart, initializeTime, parameters, path, renderContent,
                  error, onErrorCall, redirect, redirectCalls, handler >>

\* Lines 157-161: the Page Renderer resolves with a redirect.
RenderRedirects(to) ==
  /\ pc = "awaitRender"
  /\ rendered' = Some([ redirect |-> to ])
  /\ result' = Resolved(RedirectResult(to))
  /\ pc' = "done"
  /\ UNCHANGED << settings, request, initializeError, handlerThrown, now, timerStart, initializeTime, parameters,
                  path, renderContent, assets, outerHtml, error, onErrorCall,
                  redirect, redirectCalls, handler, calls >>

\* Lines 163-189: the Page Renderer resolves with a page.
RenderReturns(r) ==
  /\ pc = "awaitRender"
  /\ rendered' = Some(r)
  /\ LET g == generateOuterHtml(r.meta, renderContent)
     IN  /\ assets' = Some(g.assets)
         /\ outerHtml' = g.html
         /\ IF g.thrown
            THEN /\ calls' = calls \o g.calls
                 /\ error' = Some(ConfigurationError)
                 /\ pc' = "catch"
                 /\ UNCHANGED result
            ELSE /\ calls' = calls \o g.calls
                                \o Streams(g.html[1], r, renderContent).calls
                 /\ result' = Resolved(ContentResult(g.html[1], r, renderContent))
                 /\ pc' = "done"
                 /\ UNCHANGED error
  /\ UNCHANGED << settings, request, initializeError, handlerThrown, now, timerStart, initializeTime, parameters,
                  path, renderContent, onErrorCall, redirect, redirectCalls,
                  handler >>

\* Lines 193, 221: no onError handler, the error is re-thrown.
CatchWithoutHandler ==
  /\ pc = "catch"
  /\ ~settings.onError
  /\ result' = Rejected(error[1])
  /\ pc' = "done"
  /\ UNCHANGED << settings, request, initializeError, rendered, handlerThrown, now, timerStart, initializeTime, parameters,
                  path, renderContent, assets, outerHtml, error, onErrorCall,
                  redirect, redirectCalls, handler, calls >>

\* Lines 193-211: onError(error, onErrorParameters) is called.
InvokeOnError ==
  /\ pc = "catch"
  /\ settings.onError
  /\ onErrorCall' = Some([ error |-> error[1], server |-> TRUE, path |-> path[1],
                           url |-> getLocationUrl(parseLocation(request.url), <<>>),
                           getState |-> parameters[1].store ])
  /\ handler' = "running"
  /\ calls' = Append(calls, "onError")
  /\ pc' = "onError"
  /\ UNCHANGED << settings, request, initializeError, rendered, handlerThrown, now, timerStart, initializeTime, parameters,
                  path, renderContent, assets, outerHtml, error, redirect,
                  redirectCalls, result >>

\* The handler calls redirect(to) while it runs.
HandlerRedirect(to) ==
  /\ pc = "onError"
  /\ Len(redirectCalls) < MaxRedirectCalls
  /\ redirect' = onErrorRedirect(to)
  /\ redirectCalls' = Append(redirectCalls, [ to |-> to, late |-> FALSE ])
  /\ UNCHANGED << settings, request, initializeError, rendered, handlerThrown, pc, now, timerStart, initializeTime,
                  parameters, path, renderContent, assets, outerHtml, error,
                  onErrorCall, handler, calls, result >>

\* Mutant: without a redirect a new error is thrown in place of the caught one.
HandlerReturns_Wrapped ==
  /\ pc = "onError"
  /\ handler' = "returned"
  /\ result' = IF redirect # None
               THEN Resolved(RedirectResult(redirect[1]))
               ELSE Rejected("WrappedError")
  /\ pc' = "done"
  /\ UNCHANGED << settings, request, initializeError, rendered, handlerThrown,
                  now, timerStart, initializeTime, parameters, path,
                  renderContent, assets, outerHtml, error, onErrorCall,
                  redirect, redirectCalls, calls >>

\* Mutant: without a redirect the protected region is entered again.
HandlerReturns_Retry ==
  /\ pc = "onError"
  /\ handler' = "returned"
  /\ IF redirect # None
     THEN /\ result' = Resolved(RedirectResult(redirect[1]))
          /\ pc' = "done"
     ELSE /\ pc' = "try"
          /\ UNCHANGED result
  /\ UNCHANGED << settings, request, initializeError, rendered, handlerThrown,
                  now, timerStart, initializeTime, parameters, path,
                  renderContent, assets, outerHtml, error, onErrorCall,
                  redirect, redirectCalls, calls >>

\* Lines 213-221: the handler returns; either redirects or throws the error.
HandlerReturns ==
  /\ pc = "onError"
  /\ handler' = "returned"
  /\ result' = IF redirect # None
               THEN Resolved(RedirectResult(redirect[1]))
               ELSE Rejected(error[1])
  /\ pc' = "done"
  /\ UNCHANGED << settings, request, initializeError, rendered, handlerThrown, now, timerStart, initializeTime, parameters,
                  path, renderContent, assets, outerHtml, error, onErrorCall,
                  redirect, redirectCalls, calls >>

\* Line 211: the handler throws; nothing in the catch block catches it.
HandlerThrows(H) ==
  /\ pc = "onError"
  /\ handlerThrown' = Some(H)
  /\ handler' = "threw"
  /\ result' = Rejected(H)
  /\ pc' = "done"
  /\ UNCHANGED << settings, request, initializeError, rendered, now, timerStart, initializeTime, parameters,
                  path, renderContent, assets, outerHtml, error, onErrorCall,
                  redirect, redirectCalls, calls >>

\* onError is not awaited: an asynchronous handler that returned (a promise)
\* may still call redirect(to) after the render call has settled.
LateRedirect(to) ==
  /\ pc = "done"
  /\ handler = "returned"
  /\ Len(redirectCalls) < MaxRedirectCalls
  /\ redirect' = onErrorRedirect(to)
  /\ redirectCalls' = Append(redirectCalls, [ to |-> to, late |-> TRUE ])
  /\ UNCHANGED << settings, request, initializeError, rendered, handlerThrown, pc, now, timerStart, initializeTime,
                  parameters, path, renderContent, assets, outerHtml, error,
                  onErrorCall, handler, calls, result >>

\* What a handler can throw: an error of its own, or the one it was given.
Throwable ==
  HandlerErrors \cup { e \in RenderErrors \cup {ConfigurationError} : error = Some(e) }

Next ==
  \/ Start
  \/ Tick
  \/ \E X \in InitializeErrors : InitializeRejects(X)
  \/ \E c \in CookiesToSet : InitializeResolves(c)
  \/ StaticBasePage
  \/ CallRender
  \/ \E E \in RenderErrors : RenderRejects(E)
  \/ \E to \in RedirectTargets : RenderRedirects(parseLocation(to))
  \/ \E r \in RenderOutputs : RenderReturns(r)
  \/ CatchWithoutHandler
  \/ InvokeOnError
  \/ \E to \in RedirectTargets : HandlerRedirect(to)
  \/ HandlerReturns
  \/ \E H \in Throwable : HandlerThrows(H)
  \/ \E to \in RedirectTargets : LateRedirect(to)

Spec == Init /\ [][Next]_vars

\* ------------------------------------------------------------ vocabulary
Done == pc = "done"
Invoked(c) == \E i \in DOMAIN calls : calls[i] = c
Count(c) == Cardinality({ i \in DOMAIN calls : calls[i] = c })
IsRedirectResult == result.kind = "resolved" /\ "redirect" \in DOMAIN result.value
IsContentResult == result.kind = "resolved" /\ "content" \in DOMAIN result.value
\* The redirect() calls the handler made before it returned or threw.
SyncCalls == SelectSeq(redirectCalls, LAMBDA c : ~c.late)
\* The request is for one of the two reserved paths.
ReservedRequest ==
  parseLocation(request.url).pathname \in
    { <<"/", "react-website-base">>, <<"/", "react-website-base", "/">> }
\* The Page Renderer resolved with a redirect descriptor / with a page.
RenderedRedirect == rendered # None /\ "redirect" \in DOMAIN rendered[1]
RenderedPage == rendered # None /\ "redirect" \notin DOMAIN rendered[1]
\* The serialization of a redirect target, written out.
Serialized(location) ==
  IF location.origin # <<>>
  THEN location.origin \o location.pathname \o location.search
  ELSE settings.basename \o location.pathname \o location.search

\* ------------------------------------------------------------------- C1
\* C1: when the State Initializer rejects with X, the render call rejects
\* with X whatever the configuration, and the onError handler, the Page
\* Renderer and the outer HTML generator are never invoked.
C1_InitializerErrorPropagates ==
  initializeError # None =>
    /\ Done
    /\ result = Rejected(initializeError[1])
    /\ ~Invoked("onError") /\ onErrorCall = None
    /\ ~Invoked("render") /\ rendered = None
    /\ ~Invoked("generateOuterHtml") /\ outerHtml = None

C1_Witness ==
  /\ initializeError # None
  /\ settings.onError
  /\ Done

\* ------------------------------------------------------------------- C2
\* C2 as stated: once the handler has been invoked for an error of the
\* protected region and has called redirect() at least once, the render call
\* resolves with the serialization of the first call's target.
C2_Original ==
  (Done /\ onErrorCall # None /\ redirectCalls # <<>>) =>
    result = Resolved([ redirect |-> Serialized(parseLocation(redirectCalls[1].to)) ])

\* C2 amended: when the handler calls redirect() one or more times before
\* it returns normally, the render call resolves with {redirect: R}, R the
\* basename-prefixed serialization of the first call's target; the recorded
\* target is always that of the first call, whatever calls follow.  When the
\* handler throws, the render call rejects with what the handler threw.
C2_FirstRedirectWins ==
  /\ (Done /\ handler = "returned" /\ SyncCalls # <<>>) =>
       result = Resolved([ redirect |-> Serialized(parseLocation(SyncCalls[1].to)) ])
  /\ redirectCalls # <<>> => redirect = Some(parseLocation(redirectCalls[1].to))
  /\ redirectCalls = <<>> => redirect = None
  /\ handler = "threw" => result = Rejected(handlerThrown[1])

C2_Witness ==
  /\ Done
  /\ handler = "returned"
  /\ Len(SyncCalls) >= 2
  /\ SyncCalls[1].to # SyncCalls[2].to
  /\ settings.basename # <<>>
  /\ IsRedirectResult

\* ------------------------------------------------------------------- C3
\* C3 as stated: an error E of the protected region ends either in a
\* redirect requested through the handler or in the rejection E itself.
C3_Original ==
  (Done /\ error # None) =>
    \/ IsRedirectResult /\ onErrorCall # None /\ SyncCalls # <<>>
    \/ result = Rejected(error[1])

\* C3 amended: an error E of the protected region ends in a redirect result
\* when the handler requested one before returning normally, in the
\* rejection E when no handler is configured or the handler returned
\* normally without requesting one, and in the rejection H when the handler
\* itself threw H; never in a content result.
C3_RedirectOrOriginalError ==
  (Done /\ error # None) =>
    /\ ~IsContentResult
    /\ ~settings.onError => result = Rejected(error[1])
    /\ settings.onError =>
         /\ onErrorCall # None /\ onErrorCall[1].error = error[1]
         /\ (handler = "returned" /\ SyncCalls = <<>>) => result = Rejected(error[1])
         /\ (handler = "returned" /\ SyncCalls # <<>>) => IsRedirectResult
         /\ handler = "threw" => result = Rejected(handlerThrown[1])
         /\ handler \in {"returned", "threw"}

C3_Witness ==
  /\ Done
  /\ error \in { Some(E) : E \in RenderErrors }
  /\ handler = "returned"
  /\ redirectCalls = <<>>
  /\ result = Rejected(error[1])

\* ------------------------------------------------------------------- C4
\* C4: on a non-reserved path where the Page Renderer returns a page, the
\* output is before-content, page element, after-content when renderContent
\* is not false, and before-content, after-content with no page element
\* rendered when it is false.
C4_StreamOrder ==
  (IsContentResult /\ ~ReservedRequest) =>
    LET c == result.value.content
    IN  IF request.renderContent # "false"
        THEN /\ Len(c) = 3
             /\ c[1].piece = "before_content"
             /\ c[2].piece = "pageElement"
             /\ c[3].piece = "after_content"
             /\ c[1] = outerHtml[1].before_content
             /\ c[2].content = rendered[1].content
             /\ c[3] = outerHtml[1].after_content
             /\ Count("renderToNodeStream") = 1
        ELSE /\ Len(c) = 2
             /\ c[1].piece = "before_content"
             /\ c[2].piece = "after_content"
             /\ c[1] = outerHtml[1].before_content
             /\ c[2] = outerHtml[1].after_content
             /\ ~Invoked("renderToNodeStream")

C4_Witness ==
  /\ IsContentResult
  /\ ~ReservedRequest
  /\ request.renderContent = "unset"
  /\ Len(result.value.content) = 3

\* ------------------------------------------------------------------- C5
\* C5: for the paths /react-website-base and /react-website-base/ and for no
\* other path, whatever renderContent is, the Page Renderer is never invoked
\* and no page element is rendered, outer HTML is generated with the
\* content-not-rendered marker set, and once the State Initializer has
\* resolved and outer HTML has been generated the render call resolves with
\* status 200 and content before-content followed by after-content.
C5_StaticShell ==
  /\ ReservedRequest =>
       /\ ~Invoked("render") /\ ~Invoked("renderToNodeStream")
       /\ outerHtml # None => outerHtml[1].after_content.contentNotRendered
       /\ Invoked("generateOuterHtml") => renderContent = "false"
       /\ pc \notin {"start", "awaitInitialize", "try"} /\ initializeError = None =>
            Invoked("generateOuterHtml")
       /\ (Done /\ outerHtml # None) =>
            /\ IsContentResult
            /\ result.value.status = StatusOk
            /\ result.value.content =
                 << outerHtml[1].before_content, outerHtml[1].after_content >>
  /\ ~ReservedRequest =>
       /\ renderContent = request.renderContent
       /\ pc \notin {"start", "awaitInitialize", "try"} /\ initializeError = None =>
            calls[2] = "render"
       /\ outerHtml # None =>
            outerHtml[1].after_content.contentNotRendered
              = (request.renderContent = "false")

C5_Witness ==
  /\ path = Some(<<"/", "react-website-base", "/">>)
  /\ request.renderContent = "true"
  /\ IsContentResult
  /\ Done

\* ------------------------------------------------------------------- C6
\* C6: when the Page Renderer returns a redirect descriptor the render call
\* resolves with the basename-prefixed serialization of its target, and the
\* outer HTML generator, the bootstrap-script generator, the page-element
\* stream render and the onError handler are never invoked.
C6_RenderRedirectReturnsAtOnce ==
  RenderedRedirect =>
    /\ Done
    /\ result = Resolved([ redirect |-> Serialized(rendered[1].redirect) ])
    /\ ~Invoked("generateOuterHtml") /\ outerHtml = None /\ assets = None
    /\ ~Invoked("generateJavascript")
    /\ ~Invoked("renderToNodeStream")
    /\ ~Invoked("onError") /\ onErrorCall = None
    /\ calls = <<"reduxInitialize", "render">>

C6_Witness ==
  /\ RenderedRedirect
  /\ rendered[1].redirect.origin = <<>>
  /\ settings.basename # <<>>
  /\ settings.onError
  /\ Done

\* ------------------------------------------------------------------- C7
\* C7: outer HTML generation uses the entries of the resolved asset
\* descriptor unchanged when it has them, makes them ["main"] when it has
\* none but has a javascript.main asset, and otherwise throws the
\* configuration error without producing fragments; that error is caught by
\* the protected region: a configured handler is invoked with it (and may
\* redirect), with no handler configured it is what the render call rejects
\* with, on the normal and on the static-shell path.
C7_AssetsEntries ==
  Invoked("generateOuterHtml") =>
    LET a == request.assets.value
    IN  /\ assets # None
        /\ a.entries # None =>
             /\ assets[1] = a
             /\ outerHtml # None
             /\ outerHtml[1].before_content.assets.entries = a.entries
             /\ outerHtml[1].after_content.assets.entries = a.entries
        /\ (a.entries = None /\ "main" \in a.javascript) =>
             /\ assets[1].entries = Some(<<"main">>)
             /\ outerHtml # None
             /\ outerHtml[1].before_content.assets.entries = Some(<<"main">>)
             /\ outerHtml[1].after_content.assets.entries = Some(<<"main">>)
        /\ (a.entries = None /\ "main" \notin a.javascript) =>
             /\ outerHtml = None
             /\ ~Invoked("generateJavascript")
             /\ error = Some(ConfigurationError)
             /\ ~IsContentResult
             /\ settings.onError =>
                  \/ pc = "catch"
                  \/ onErrorCall # None /\ onErrorCall[1].error = ConfigurationError
             /\ (Done /\ handler = "returned") =>
                  IF SyncCalls # <<>> THEN IsRedirectResult
                  ELSE result = Rejected(ConfigurationError)
             /\ ~settings.onError =>
                  \/ pc = "catch"
                  \/ Done /\ result = Rejected(ConfigurationError)
        /\ error = Some(ConfigurationError) =>
             (a.entries = None /\ "main" \notin a.javascript)

C7_Witness ==
  /\ error = Some(ConfigurationError)
  /\ ReservedRequest
  /\ onErrorCall # None
  /\ IsRedirectResult

\* ------------------------------------------------------------------- C8
\* C8 as stated: every resolved result is a redirect result or a complete
\* content result with route, status, content, a time record containing
\* initialize, and the cookies-to-set of the State Initializer.
C8_Original ==
  result.kind = "resolved" =>
    \/ DOMAIN result.value = {"redirect"}
    \/ /\ DOMAIN result.value = {"route", "status", "content", "time", "cookies"}
       /\ "initialize" \in DOMAIN result.value.time
       /\ result.value.cookies = parameters[1].cookies

\* C8 amended: every resolved result is a redirect result, or on a
\* non-reserved path a complete content result (route, status, content, a
\* time record containing initialize, the cookies-to-set of the State
\* Initializer), or on the reserved static-shell path a content result with
\* route, status 200, content and an empty cookies list, without a time
\* record and without the cookies-to-set.
C8_ResultShape ==
  result.kind = "resolved" =>
    \/ DOMAIN result.value = {"redirect"}
    \/ /\ ~ReservedRequest
       /\ DOMAIN result.value = {"route", "status", "content", "time", "cookies"}
       /\ "initialize" \in DOMAIN result.value.time
       /\ result.value.cookies = parameters[1].cookies
       /\ result.value.route = rendered[1].route
       /\ result.value.status = rendered[1].status
    \/ /\ ReservedRequest
       /\ DOMAIN result.value = {"route", "status", "content", "cookies"}
       /\ result.value.route = "/react-website-base"
       /\ result.value.status = StatusOk
       /\ result.value.cookies = <<>>

C8_Witness ==
  /\ result.kind = "resolved"
  /\ ReservedRequest
  /\ "time" \notin DOMAIN result.value
  /\ parameters[1].cookies # <<>>
  /\ result.value.cookies = <<>>

\* ------------------------------------------------------------------- C9
\* C9 as stated: in a content result of the normal path every field of the
\* Page Renderer's timing record appears in result.time unchanged and
\* result.time.initialize is the measured initialize time.
C9_Original ==
  (IsContentResult /\ ~ReservedRequest) =>
    /\ \A f \in DOMAIN rendered[1].time :
         f \in DOMAIN result.value.time
           /\ result.value.time[f] = rendered[1].time[f]
    /\ result.value.time.initialize = initializeTime[1]

\* C9 amended: in a content result of the normal path every field of the
\* Page Renderer's timing record other than `initialize` appears in
\* result.time unchanged, result.time has no other field than those and
\* initialize, and result.time.initialize is the initialize time measured by
\* this render call, which replaces an `initialize` field of the record.
C9_TimeMerge ==
  (IsContentResult /\ ~ReservedRequest) =>
    /\ DOMAIN result.value.time = DOMAIN rendered[1].time \cup {"initialize"}
    /\ \A f \in DOMAIN rendered[1].time \ {"initialize"} :
         result.value.time[f] = rendered[1].time[f]
    /\ result.value.time.initialize = initializeTime[1]
    /\ initializeTime[1] = now - timerStart

C9_Witness ==
  /\ IsContentResult
  /\ ~ReservedRequest
  /\ DOMAIN rendered[1].time = {"preload", "initialize"}
  /\ initializeTime[1] > 0
  /\ result.value.time.initialize # rendered[1].time.initialize

\* ------------------------------------------------------------------ C10
\* C10: each collaborator is invoked at most once per render call, in the
\* order State Initializer, Page Renderer, outer HTML generator with its
\* bootstrap-script generator, onError handler; the handler is invoked only
\* after the State Initializer has resolved, and on a non-reserved path the
\* outer HTML generator only after the Page Renderer has returned a page.
Rank(c) ==
  CASE c = "reduxInitialize" -> 1
    [] c = "render" -> 2
    [] c = "generateOuterHtml" -> 3
    [] c = "generateJavascript" -> 4
    [] c = "renderToNodeStream" -> 5
    [] c = "onError" -> 6

C10_OnceInOrder ==
  /\ \A i, j \in DOMAIN calls : i < j => Rank(calls[i]) < Rank(calls[j])
  /\ \A i \in DOMAIN calls : Count(calls[i]) = 1
  /\ calls # <<>> => calls[1] = "reduxInitialize"
  /\ Invoked("onError") => parameters # None /\ initializeError = None
  /\ Invoked("render") => parameters # None /\ ~ReservedRequest
  /\ (Invoked("generateOuterHtml") /\ ~ReservedRequest) => RenderedPage
  /\ Invoked("generateJavascript") => Invoked("generateOuterHtml")
  /\ (onErrorCall # None) = Invoked("onError")

C10_Witness ==
  /\ Done
  /\ calls = <<"reduxInitialize", "render", "generateOuterHtml", "onError">>
  /\ handler = "returned"
  /\ result.kind = "rejected"

====
